---- MODULE Spec2Model ----
(***************************************************************************)
(* A model of scraper.py (AllJobsScraper and main): the country/location   *)
(* classifier, the job record extractor, the relevance filter, the         *)
(* seen-set file and the parallel scrape of the company roster, run after  *)
(* run against the same seen_jobs.json.                                    *)
(*                                                                         *)
(* Text is modelled as TLA+ strings: lower-casing, substring search and    *)
(* concatenation are computed character by character, as Python does.      *)
(***************************************************************************)
EXTENDS Naturals, Sequences, FiniteSets, TLC

VARIABLES
    store,      \* seen_jobs.json on disk
    persisted,  \* history: every identity a completed save has written
    pc,         \* where main() is
    seen_jobs,  \* main's seen_jobs
    new_jobs,   \* main's new_jobs
    all_jobs,   \* scraper.all_jobs, the shared aggregate
    lock,       \* scraper.lock: the company holding it, or NoOne
    task,       \* per company: its response, its position, its jobs_found
    sent,       \* history: the new_jobs lists handed to SMTP, in order
    fn          \* the pure-function harness: inputs and outputs

vars == <<store, persisted, pc, seen_jobs, new_jobs, all_jobs, lock, task, sent, fn>>

runVars == <<store, persisted, pc, seen_jobs, new_jobs, all_jobs, lock, task, sent>>

----------------------------------------------------------------------------
(* Strings *)

UpperAlpha == "ABCDEFGHIJKLMNOPQRSTUVWXYZ"

LowerAlpha == "abcdefghijklmnopqrstuvwxyz"

Char(s, i) == SubSeq(s, i, i)

UpperLetters == {Char(UpperAlpha, i) : i \in 1..Len(UpperAlpha)}

LowerOf ==
    [c \in UpperLetters |->
        Char(LowerAlpha, CHOOSE i \in 1..Len(UpperAlpha) : Char(UpperAlpha, i) = c)]

\* str.lower() on one character
LowerChar(c) == IF c \in UpperLetters THEN LowerOf[c] ELSE c

RECURSIVE StrLower(_)
\* str.lower()
StrLower(s) ==
    IF Len(s) = 0 THEN ""
    ELSE LowerChar(Char(s, 1)) \o StrLower(SubSeq(s, 2, Len(s)))

\* Python's `k in s` on strings
StrContains(s, k) ==
    \E i \in 1..(Len(s) + 1) :
        /\ i + Len(k) - 1 <= Len(s)
        /\ SubSeq(s, i, i + Len(k) - 1) = k

\* str.startswith
StartsWith(s, p) == Len(p) <= Len(s) /\ SubSeq(s, 1, Len(p)) = p

\* text.split('\n')[0]
FirstLine(s) ==
    IF StrContains(s, "\n")
    THEN SubSeq(s, 1, (CHOOSE i \in 1..Len(s) :
                          /\ Char(s, i) = "\n"
                          /\ \A j \in 1..(i - 1) : Char(s, j) # "\n") - 1)
    ELSE s

IsSpace(c) == c \in {" ", "\n", "\t"}

RECURSIVE StrStrip(_)
\* str.strip()
StrStrip(s) ==
    IF Len(s) = 0 THEN s
    ELSE IF IsSpace(Char(s, 1)) THEN StrStrip(SubSeq(s, 2, Len(s)))
    ELSE IF IsSpace(Char(s, Len(s))) THEN StrStrip(SubSeq(s, 1, Len(s) - 1))
    ELSE s

\* any(word in text for word in words)
AnyIn(words, text) == \E i \in 1..Len(words) : StrContains(text, words[i])

----------------------------------------------------------------------------
(* The classifier: extract_country and extract_location *)

UaeWords == <<"uae", "dubai", "abu dhabi", "emirates", "sharjah">>

SaudiWords == <<"saudi", "riyadh", "jeddah", "ksa">>

QatarWords == <<"qatar", "doha">>

UkWords == <<"uk", "united kingdom", "london", "manchester", "birmingham">>

\* extract_country with .lower() forgotten
extract_country_NoLower(text) ==
    IF AnyIn(UaeWords, text) THEN "UAE"
    ELSE IF AnyIn(SaudiWords, text) THEN "Saudi Arabia"
    ELSE IF AnyIn(QatarWords, text) THEN "Qatar"
    ELSE IF AnyIn(UkWords, text) THEN "United Kingdom"
    ELSE "Unknown"

extract_country(text) ==
    LET text_lower == StrLower(text) IN
    IF AnyIn(UaeWords, text_lower) THEN "UAE"
    ELSE IF AnyIn(SaudiWords, text_lower) THEN "Saudi Arabia"
    ELSE IF AnyIn(QatarWords, text_lower) THEN "Qatar"
    ELSE IF AnyIn(UkWords, text_lower) THEN "United Kingdom"
    ELSE "Unknown"

\* all_locations, in the insertion order of the merged dictionaries
all_locations == <<
    <<"dubai", "Dubai, UAE">>,
    <<"abu dhabi", "Abu Dhabi, UAE">>,
    <<"sharjah", "Sharjah, UAE">>,
    <<"ajman", "Ajman, UAE">>,
    <<"riyadh", "Riyadh, Saudi Arabia">>,
    <<"jeddah", "Jeddah, Saudi Arabia">>,
    <<"dammam", "Dammam, Saudi Arabia">>,
    <<"khobar", "Khobar, Saudi Arabia">>,
    <<"doha", "Doha, Qatar">>,
    <<"qatar", "Qatar">>,
    <<"london", "London, UK">>,
    <<"manchester", "Manchester, UK">>,
    <<"birmingham", "Birmingham, UK">>,
    <<"edinburgh", "Edinburgh, UK">>,
    <<"glasgow", "Glasgow, UK">> >>

LocationTBD == "Location TBD"

extract_location(text) ==
    LET text_lower == StrLower(text)
        hits == {i \in 1..Len(all_locations) : StrContains(text_lower, all_locations[i][1])}
    IN  IF hits = {} THEN LocationTBD
        ELSE all_locations[CHOOSE i \in hits : \A j \in hits : i <= j][2]

----------------------------------------------------------------------------
(* urllib.parse.urljoin, for a base URL without a path (find_company_website   *)
(* builds "https://www.<name>.com") and a reference without dot segments.      *)

SchemeChars == UpperAlpha \o LowerAlpha \o "0123456789+-."

\* the reference starts with "<scheme>:"
HasScheme(h) ==
    \E i \in 2..Len(h) :
        /\ Char(h, i) = ":"
        /\ StrContains(UpperAlpha \o LowerAlpha, Char(h, 1))
        /\ \A j \in 1..(i - 1) : StrContains(SchemeChars, Char(h, j))

\* urlsplit raises ValueError("Invalid IPv6 URL") on a bracket that is not closed
UrlJoinRaises(h) ==
    /\ ~HasScheme(h)
    /\ StartsWith(h, "//")
    /\ StrContains(h, "[") # StrContains(h, "]")

UrlJoin(base, h) ==
    IF HasScheme(h) THEN h
    ELSE IF StartsWith(h, "//") THEN "https:" \o h
    ELSE IF StartsWith(h, "/") \/ StartsWith(h, "?") \/ StartsWith(h, "#") THEN base \o h
    ELSE base \o "/" \o h

----------------------------------------------------------------------------
(* The extractor: extract_job_info.  An element is a record                 *)
(*   name  its tag,   text  get_text(strip=True),   href  its href or "",    *)
(*   kids  its descendant headings and links in document order, each a      *)
(*         record [name, text, href].                                       *)

Headings == {"h1", "h2", "h3", "h4", "h5"}

NavWords == {"jobs", "careers", "search", "apply", "home"}

skip_keywords == <<"cookie", "privacy", "about us", "contact", "home", "search", "filter", "menu">>

NoJob == [id |-> "", company |-> "", title |-> "", url |-> "", location |-> "",
          country |-> "", full_text |-> ""]

\* element.find(names): the first descendant with one of the tags, 0 if none
FindKid(element, names) ==
    LET hits == {i \in 1..Len(element.kids) : element.kids[i].name \in names}
    IN  IF hits = {} THEN 0 ELSE CHOOSE i \in hits : \A j \in hits : i <= j

\* lines 351-364
TitleOf(element) ==
    IF element.name \in Headings THEN element.text
    ELSE IF element.name = "a"
        THEN (IF element.text # "" THEN element.text ELSE element.title)
    ELSE LET k == FindKid(element, Headings \cup {"a"})
         IN  IF k # 0 THEN element.kids[k].text
             ELSE StrStrip(FirstLine(element.text))

\* lines 375-381
RawUrlOf(element) ==
    IF element.name = "a" THEN element.href
    ELSE LET k == FindKid(element, {"a"})
         IN  IF k # 0 THEN element.kids[k].href ELSE ""

\* line 383
NeedsJoin(job_url) == job_url # "" /\ ~StartsWith(job_url, "http")

\* line 387: f"{company_config['name']}:{job_url or title}"
JobId(company, job_url, title) ==
    company \o ":" \o (IF job_url # "" THEN job_url ELSE title)

\* extract_job_info: [kind |-> "job" | "none" | "raise", job |-> the record]
extract_job_info(element, company_config) ==
    LET element_text == element.text
        title == TitleOf(element)
        raw_url == RawUrlOf(element)
    IN  IF Len(element_text) < 5 \/ StrLower(element_text) \in NavWords
            THEN [kind |-> "none", job |-> NoJob]
        ELSE IF title = "" \/ Len(title) < 3
            THEN [kind |-> "none", job |-> NoJob]
        ELSE IF AnyIn(skip_keywords, StrLower(title))
            THEN [kind |-> "none", job |-> NoJob]
        ELSE IF NeedsJoin(raw_url) /\ UrlJoinRaises(raw_url)
            THEN [kind |-> "raise", job |-> NoJob]
        ELSE LET job_url == IF NeedsJoin(raw_url)
                            THEN UrlJoin(company_config.base_url, raw_url)
                            ELSE raw_url
             IN  [kind |-> "job",
                  job |-> [id |-> JobId(company_config.name, job_url, title),
                           company |-> company_config.name,
                           title |-> title,
                           url |-> job_url,
                           location |-> extract_location(element_text),
                           country |-> extract_country(element_text),
                           full_text |-> element_text]]

----------------------------------------------------------------------------
(* The relevance filter: is_relevant_job *)

target_countries == <<"UAE", "Saudi Arabia", "Qatar", "United Kingdom", "UK">>

InList(x, list) == \E i \in 1..Len(list) : list[i] = x

\* is_relevant_job without the country test
is_relevant_job_AnyCountry(job) == TRUE

\* the filter of the title variant: country and a title keyword
is_relevant_job_WithTitle(job) ==
    /\ InList(job.country, target_countries)
    /\ \E k \in {"finance", "director", "head of"} : StrContains(StrLower(job.title), k)

is_relevant_job(job) == InList(job.country, target_countries)

----------------------------------------------------------------------------
(* The roster and the pages the sites may serve *)

\* create_company_config: the selectors of a company with a careers page
CareerSelectors == <<".job-listing", ".job-item", ".position", ".career-item",
                     "[class*=\"job\"]", "[class*=\"career\"]", "[class*=\"position\"]",
                     ".opportunity", ".role", ".opening", ".vacancy">>

\* create_company_config: the selectors of a company without one
MainSiteSelectors == <<".job-listing", ".job-item", ".position", ".career-item",
                       "[class*=\"job\"]", "[class*=\"career\"]", "[class*=\"position\"]">>

generic_selectors == <<"a[href*=\"job\"]", "a[href*=\"career\"]", "a[href*=\"position\"]",
                       ".job", ".career", ".position", ".role", ".opportunity",
                       "h3", "h4", "div[class*=\"title\"]">>

PrimaryCap == 50

GenericCap == 30

max_workers == 5

Acme == [name |-> "Acme", url |-> "https://www.acme.com/careers",
         base_url |-> "https://www.acme.com", job_selectors |-> CareerSelectors]

Emaar == [name |-> "Emaar", url |-> "https://www.emaar.com",
          base_url |-> "https://www.emaar.com", job_selectors |-> MainSiteSelectors]

\* the roster load_companies_from_excel returns
Companies == <<Acme, Emaar>>

Names == {Companies[i].name : i \in 1..Len(Companies)}

\* a company row of the spreadsheet with a careers page
CareersCompany(name, site) ==
    [name |-> name, url |-> site \o "/careers", base_url |-> site,
     job_selectors |-> CareerSelectors]

\* a roster with more companies than the pool has workers
PoolCompanies == <<CareersCompany("Aldar", "https://www.aldar.com"),
                   CareersCompany("Barclays", "https://home.barclays"),
                   CareersCompany("Chalhoub", "https://www.chalhoubgroup.com"),
                   CareersCompany("Damac", "https://www.damacproperties.com"),
                   CareersCompany("Etisalat", "https://www.etisalat.ae"),
                   CareersCompany("Fab", "https://www.bankfab.com")>>

PoolNames == {PoolCompanies[i].name : i \in 1..Len(PoolCompanies)}

AllCompanies == Companies \o PoolCompanies

AllNames == Names \cup PoolNames

Config(c) == AllCompanies[CHOOSE i \in 1..Len(AllCompanies) : AllCompanies[i].name = c]

Link(text, href) == [name |-> "a", text |-> text, href |-> href]

Elem(name, text, href, kids) ==
    [name |-> name, text |-> text, title |-> "", href |-> href, kids |-> kids]

\* a card: a div whose only link carries the title
Card(text, href) == Elem("div", text, "", <<Link(text, href)>>)

\* A page is the function from the selectors that match something on it to
\* the elements soup.select returns for them, in document order.
Pages == [
    listing |->
        (".job-listing" :> <<Card("Finance Director - Dubai Office", "/jobs/1"),
                             Card("Data Analyst - Remote", "/jobs/2"),
                             Card("Treasury Manager, London", "jobs/3")>>),
    nested |->
        ("[class*=\"job\"]" :> <<Card("Finance Director - Dubai Office", "/jobs/1"),
                             Elem("a", "Finance Director - Dubai Office", "/jobs/1", <<>>)>>
         @@ "a[href*=\"job\"]" :> <<Elem("a", "Finance Director - Dubai Office", "/jobs/1", <<>>)>>),
    headings |->
        ("h3" :> <<Elem("h3", "Head of Treasury - Riyadh", "", <<>>),
                   Elem("h3", "About us", "", <<>>)>>),
    navigation |->
        (".job-listing" :> <<Elem("div", "Home", "", <<>>)>>
         @@ "h3" :> <<Elem("h3", "Head of Treasury - Riyadh", "", <<>>)>>),
    malformed |-> <<>>,
    blank |-> <<>>,
    faulty |->
        (".job-listing" :> <<Card("Head of Treasury - Riyadh", ""),
                             Card("Finance Director - Dubai Office", "//[bad"),
                             Elem("div", "Home", "", <<>>),
                             Card("Data Analyst - Remote", "/jobs/2"),
                             Card("Treasury Manager, London", "")>>),
    long_listing |->
        (".job-listing" :>
            [i \in 1..51 |->
                IF i < 50 THEN Card("Data Analyst - Remote", "/jobs/2")
                ELSE IF i = 50 THEN Card("Finance Director - Dubai Office", "/jobs/1")
                ELSE Card("Treasury Manager, London", "jobs/3")]
         @@ ".job-item" :> <<Card("Treasury Manager, London", "jobs/3")>>),
    long_headings |->
        ("h3" :>
            [i \in 1..31 |->
                IF i < 30 THEN Elem("h3", "Data Analyst - Remote", "", <<>>)
                ELSE IF i = 30 THEN Elem("h3", "Head of Treasury - Riyadh", "", <<>>)
                ELSE Elem("h3", "Finance Director - Dubai Office", "", <<>>)]
         @@ "h4" :> <<Elem("h4", "Treasury Manager, London", "", <<>>)>>),
    several |->
        (".position" :> <<Card("Treasury Manager, London", "jobs/3")>>
         @@ "[class*=\"position\"]" :>
                <<Card("Treasury Manager, London", "jobs/3"),
                  Card("Finance Director - Dubai Office", "/jobs/1")>>
         @@ "h3" :> <<Elem("h3", "Head of Treasury - Riyadh", "", <<>>)>>),
    links |->
        ("a[href*=\"career\"]" :>
                <<Elem("a", "Finance Director - Dubai Office", "/careers/1", <<>>)>>
         @@ "h3" :> <<Elem("h3", "Head of Treasury - Riyadh", "", <<>>)>>) ]

\* BeautifulSoup(response.content, 'html.parser') raises on the document
ParseRaises(body) == body = "malformed"

\* session.get(url, timeout=15): what came back
Response(kind, status, body) == [kind |-> kind, status |-> status, body |-> body]

NoResponse == Response("none", 0, "blank")

\* the responses each site may give in a run
Responses(c) ==
    IF c = "Acme"
    THEN {Response("timeout", 0, "blank"),
          Response("ok", 200, "listing"),
          Response("ok", 200, "nested"),
          Response("ok", 300, "listing"),
          Response("ok", 404, "listing")}
    ELSE IF c = "Aldar" THEN {Response("ok", 200, "listing")}
    ELSE IF c = "Barclays" THEN {Response("ok", 200, "headings")}
    ELSE IF c = "Chalhoub" THEN {Response("timeout", 0, "blank"),
                                 Response("ok", 200, "faulty")}
    ELSE IF c = "Damac" THEN {Response("ok", 200, "blank")}
    ELSE IF c = "Etisalat" THEN {Response("ok", 200, "nested")}
    ELSE IF c = "Fab" THEN {Response("ok", 404, "listing")}
    ELSE {Response("connection_error", 0, "blank"),
          Response("ok", 200, "headings"),
          Response("ok", 200, "navigation"),
          Response("ok", 200, "malformed"),
          Response("ok", 200, "faulty"),
          Response("ok", 500, "headings")}

----------------------------------------------------------------------------
(* scrape_single_company, lines 227-329: from the response to jobs_found *)

\* soup.select(selector)
Select(page, selector) == IF selector \in DOMAIN page THEN page[selector] ELSE <<>>

Min(a, b) == IF a <= b THEN a ELSE b

\* the loops without the slices of lines 252 and 273
FirstMatch_NoCap(page, selectors, cap) ==
    LET hits == {i \in 1..Len(selectors) : Select(page, selectors[i]) # <<>>}
    IN  IF hits = {} THEN <<>>
        ELSE Select(page, selectors[CHOOSE i \in hits : \A j \in hits : i <= j])

\* the loops of lines 246-257 and 268-277: the capped matches of the first
\* selector that matches anything
FirstMatch(page, selectors, cap) ==
    LET hits == {i \in 1..Len(selectors) : Select(page, selectors[i]) # <<>>}
    IN  IF hits = {} THEN <<>>
        ELSE LET first == CHOOSE i \in hits : \A j \in hits : i <= j
                 elements == Select(page, selectors[first])
             IN  SubSeq(elements, 1, Min(cap, Len(elements)))

\* lines 245-277
ElementsFound(page, company_config) ==
    LET primary == FirstMatch(page, company_config.job_selectors, PrimaryCap)
    IN  IF primary # <<>> THEN primary
        ELSE FirstMatch(page, generic_selectors, GenericCap)

\* the element loop without the handler of lines 303-306: a raising element
\* ends the task in the handler of lines 337-339
ProcessElements_AbortOnRaise(elements, company_config) ==
    LET results == [i \in 1..Len(elements) |->
                        extract_job_info(elements[i], company_config)]
        kept == SelectSeq(results, LAMBDA r : r.kind = "job" /\ is_relevant_job(r.job))
    IN  IF \E i \in 1..Len(results) : results[i].kind = "raise" THEN <<>>
        ELSE [k \in 1..Len(kept) |-> kept[k].job]

RECURSIVE ProcessElements(_, _)
\* lines 286-306: the relevant jobs of the elements, in order
ProcessElements(elements, company_config) ==
    IF elements = <<>> THEN <<>>
    ELSE LET r == extract_job_info(Head(elements), company_config)
             rest == ProcessElements(Tail(elements), company_config)
         IN  IF r.kind = "job" /\ is_relevant_job(r.job)
             THEN <<r.job>> \o rest
             ELSE rest

\* line 236 left out: any response that arrived counts as the page
RaisesBeforeParse_NoStatusCheck(response) == response.kind # "ok"

\* lines 235-236: session.get raises, or raise_for_status does
RaisesBeforeParse(response) ==
    response.kind # "ok" \/ (response.status >= 400 /\ response.status < 600)

\* what the task returns: [failed, jobs_found]
ScrapeOutcome(company_config, response) ==
    IF RaisesBeforeParse(response) \/ ParseRaises(response.body)
    THEN [failed |-> TRUE, jobs_found |-> <<>>]
    ELSE [failed |-> FALSE,
          jobs_found |-> ProcessElements(
              ElementsFound(Pages[response.body], company_config), company_config)]

\* the outcome of each company's task on each response it may get
OutcomeTable ==
    [c \in AllNames |-> [response \in Responses(c) |-> ScrapeOutcome(Config(c), response)]]

----------------------------------------------------------------------------
(* seen_jobs.json.  json.dump writes "[", the identities one by one and "]"; *)
(* the file is a record of what has reached the disk:                       *)
(*   exists, head ("[" written), ids (identities written), tail ("]").      *)

NoFile == [exists |-> FALSE, head |-> FALSE, ids |-> {}, tail |-> FALSE]

\* open('seen_jobs.json', 'w'): the file exists and is empty
Truncated == [exists |-> TRUE, head |-> FALSE, ids |-> {}, tail |-> FALSE]

\* json.load succeeds: the document is complete
Parses(file) == file.exists /\ file.head /\ file.tail

\* load_seen_jobs with every exception caught
LoadOutcome_CatchAll(file) ==
    IF Parses(file) THEN [raised |-> FALSE, seen |-> file.ids]
    ELSE [raised |-> FALSE, seen |-> {}]

\* load_seen_jobs: [raised, seen]; only FileNotFoundError is caught
LoadOutcome(file) ==
    IF ~file.exists THEN [raised |-> FALSE, seen |-> {}]
    ELSE IF Parses(file) THEN [raised |-> FALSE, seen |-> file.ids]
    ELSE [raised |-> TRUE, seen |-> {}]

\* line 627: [job for job in all_jobs if job['id'] not in seen_jobs]
DiffNew(jobs, seen) == SelectSeq(jobs, LAMBDA job : job.id \notin seen)

\* lines 630-631 starting from an empty set instead of the loaded one
CommitSeen_OnlyNew(seen, jobs) == {jobs[i].id : i \in 1..Len(jobs)}

\* lines 630-631
CommitSeen(seen, jobs) == seen \cup {jobs[i].id : i \in 1..Len(jobs)}

----------------------------------------------------------------------------
(* The runs of main() *)

NoOne == "-"

IdleTask == [pc |-> "queued", response |-> NoResponse, failed |-> FALSE, jobs_found |-> <<>>]

NoProcess ==
    /\ pc = "idle"
    /\ seen_jobs = {}
    /\ new_jobs = <<>>
    /\ all_jobs = <<>>
    /\ lock = NoOne
    /\ task = [c \in Names |-> IdleTask]

NoFn == [pc |-> "off"]

Init ==
    /\ store = NoFile
    /\ persisted = {}
    /\ sent = {}
    /\ NoProcess
    /\ fn = NoFn

\* a new process runs main(): AllJobsScraper(), the roster, the debug probes
StartRun ==
    /\ pc = "idle"
    /\ pc' = "load"
    /\ UNCHANGED <<store, persisted, seen_jobs, new_jobs, all_jobs, lock, task, sent, fn>>

\* line 617
Load ==
    /\ pc = "load"
    /\ LET r == LoadOutcome(store)
       IN  IF r.raised
           THEN pc' = "load_failed" /\ UNCHANGED seen_jobs
           ELSE pc' = "scrape" /\ seen_jobs' = r.seen
    /\ UNCHANGED <<store, persisted, new_jobs, all_jobs, lock, task, sent, fn>>

Running == {c \in DOMAIN task : task[c].pc \in {"fetch", "acquire", "locked", "unlock"}}

\* a pool worker takes the company's task
TaskStart(c) ==
    /\ pc = "scrape"
    /\ task[c].pc = "queued"
    /\ Cardinality(Running) < max_workers
    /\ task' = [task EXCEPT ![c].pc = "fetch"]
    /\ UNCHANGED <<store, persisted, pc, seen_jobs, new_jobs, all_jobs, lock, sent, fn>>

\* lines 227-329, or the handler of lines 337-339
TaskScrape(c) ==
    /\ pc = "scrape"
    /\ task[c].pc = "fetch"
    /\ \E response \in Responses(c) :
        LET r == OutcomeTable[c][response]
        IN  task' = [task EXCEPT ![c] =
                [pc |-> IF r.failed THEN "done" ELSE "acquire",
                 response |-> response,
                 failed |-> r.failed,
                 jobs_found |-> r.jobs_found]]
    /\ UNCHANGED <<store, persisted, pc, seen_jobs, new_jobs, all_jobs, lock, sent, fn>>

\* line 331 with no lock to wait for
TaskAcquire_NoLock(c) ==
    /\ pc = "scrape"
    /\ task[c].pc = "acquire"
    /\ lock' = c
    /\ task' = [task EXCEPT ![c].pc = "locked"]
    /\ UNCHANGED <<store, persisted, pc, seen_jobs, new_jobs, all_jobs, sent, fn>>

\* line 331: with self.lock
TaskAcquire(c) ==
    /\ pc = "scrape"
    /\ task[c].pc = "acquire"
    /\ lock = NoOne
    /\ lock' = c
    /\ task' = [task EXCEPT ![c].pc = "locked"]
    /\ UNCHANGED <<store, persisted, pc, seen_jobs, new_jobs, all_jobs, sent, fn>>

\* line 332
TaskExtend(c) ==
    /\ pc = "scrape"
    /\ task[c].pc = "locked"
    /\ all_jobs' = all_jobs \o task[c].jobs_found
    /\ task' = [task EXCEPT ![c].pc = "unlock"]
    /\ UNCHANGED <<store, persisted, pc, seen_jobs, new_jobs, lock, sent, fn>>

\* the end of the with block, lines 334-335
TaskRelease(c) ==
    /\ pc = "scrape"
    /\ task[c].pc = "unlock"
    /\ lock' = NoOne
    /\ task' = [task EXCEPT ![c].pc = "done"]
    /\ UNCHANGED <<store, persisted, pc, seen_jobs, new_jobs, all_jobs, sent, fn>>

\* lines 469-476: every future has completed
Join ==
    /\ pc = "scrape"
    /\ \A c \in DOMAIN task : task[c].pc = "done"
    /\ pc' = "diff"
    /\ UNCHANGED <<store, persisted, seen_jobs, new_jobs, all_jobs, lock, task, sent, fn>>

\* line 627
Diff ==
    /\ pc = "diff"
    /\ new_jobs' = DiffNew(all_jobs, seen_jobs)
    /\ pc' = "commit"
    /\ UNCHANGED <<store, persisted, seen_jobs, all_jobs, lock, task, sent, fn>>

\* lines 630-631
Commit ==
    /\ pc = "commit"
    /\ seen_jobs' = CommitSeen(seen_jobs, new_jobs)
    /\ pc' = "save"
    /\ UNCHANGED <<store, persisted, new_jobs, all_jobs, lock, task, sent, fn>>

\* line 173
SaveOpen ==
    /\ pc = "save"
    /\ store' = Truncated
    /\ pc' = "write"
    /\ UNCHANGED <<persisted, seen_jobs, new_jobs, all_jobs, lock, task, sent, fn>>

\* line 174: the next piece of the document reaches the file
SaveWrite ==
    /\ pc = "write"
    /\ \/ /\ ~store.head
          /\ store' = [store EXCEPT !.head = TRUE, !.tail = (seen_jobs = {})]
       \/ /\ store.head
          /\ \E id \in seen_jobs \ store.ids : store' = [store EXCEPT !.ids = @ \cup {id}]
       \/ /\ store.head
          /\ seen_jobs # {}
          /\ store.ids = seen_jobs
          /\ ~store.tail
          /\ store' = [store EXCEPT !.tail = TRUE]
    /\ UNCHANGED <<persisted, pc, seen_jobs, new_jobs, all_jobs, lock, task, sent, fn>>

\* the end of the with block of line 173: the document is complete
SaveClose ==
    /\ pc = "write"
    /\ store.head /\ store.tail /\ store.ids = seen_jobs
    /\ persisted' = persisted \cup seen_jobs
    /\ pc' = "send"
    /\ UNCHANGED <<store, seen_jobs, new_jobs, all_jobs, lock, task, sent, fn>>

\* the process dies while the file is open for writing
Crash ==
    /\ pc = "write"
    /\ pc' = "crashed"
    /\ UNCHANGED <<store, persisted, seen_jobs, new_jobs, all_jobs, lock, task, sent, fn>>

\* send_email undoing the save when the mail does not go out
Send_RollsBack ==
    /\ pc = "send"
    /\ \/ /\ new_jobs = <<>>
          /\ pc' = "summary"
          /\ UNCHANGED <<sent, store>>
       \/ /\ new_jobs # <<>>
          /\ \E outcome \in {"no_credentials", "smtp_error", "delivered"} :
              /\ pc' = IF outcome = "no_credentials" THEN "send_failed" ELSE "summary"
              /\ sent' = IF outcome = "delivered"
                         THEN sent \cup {new_jobs[i].id : i \in 1..Len(new_jobs)}
                         ELSE sent
              /\ store' = IF outcome = "delivered" THEN store
                          ELSE [store EXCEPT !.ids = @ \ {new_jobs[i].id : i \in 1..Len(new_jobs)}]
    /\ UNCHANGED <<persisted, seen_jobs, new_jobs, all_jobs, lock, task, fn>>

\* send_email, lines 478-595
Send ==
    /\ pc = "send"
    /\ \/ /\ new_jobs = <<>>
          /\ pc' = "summary"
          /\ UNCHANGED sent
       \/ /\ new_jobs # <<>>
          /\ \E outcome \in {"no_credentials", "smtp_error", "delivered"} :
              /\ pc' = IF outcome = "no_credentials" THEN "send_failed" ELSE "summary"
              /\ sent' = IF outcome = "delivered"
                         THEN sent \cup {new_jobs[i].id : i \in 1..Len(new_jobs)}
                         ELSE sent
    /\ UNCHANGED <<store, persisted, seen_jobs, new_jobs, all_jobs, lock, task, fn>>

\* the process is gone: after the summary, an unhandled exception or a kill
Exit ==
    /\ pc \in {"summary", "load_failed", "send_failed", "crashed"}
    /\ pc' = "idle"
    /\ seen_jobs' = {}
    /\ new_jobs' = <<>>
    /\ all_jobs' = <<>>
    /\ lock' = NoOne
    /\ task' = [c \in Names |-> IdleTask]
    /\ UNCHANGED <<store, persisted, sent, fn>>

Next ==
    \/ StartRun
    \/ Load
    \/ \E c \in Names : TaskStart(c)
    \/ \E c \in Names : TaskScrape(c)
    \/ \E c \in Names : TaskAcquire(c)
    \/ \E c \in Names : TaskExtend(c)
    \/ \E c \in Names : TaskRelease(c)
    \/ Join
    \/ Diff
    \/ Commit
    \/ SaveOpen
    \/ SaveWrite
    \/ SaveClose
    \/ Crash
    \/ Send
    \/ Exit

Spec == Init /\ [][Next]_vars

----------------------------------------------------------------------------
(* scrape_all_companies on a roster of six companies: the pool of           *)
(* max_workers threads and the futures of lines 465-474.                    *)

\* main() has loaded no file and calls scrape_all_companies(companies)
PoolInit ==
    /\ store = NoFile
    /\ persisted = {}
    /\ sent = {}
    /\ pc = "scrape"
    /\ seen_jobs = {}
    /\ new_jobs = <<>>
    /\ all_jobs = <<>>
    /\ lock = NoOne
    /\ task = [c \in PoolNames |-> IdleTask]
    /\ fn = NoFn

PoolNext ==
    \/ \E c \in PoolNames : TaskStart(c)
    \/ \E c \in PoolNames : TaskScrape(c)
    \/ \E c \in PoolNames : TaskAcquire(c)
    \/ \E c \in PoolNames : TaskExtend(c)
    \/ \E c \in PoolNames : TaskRelease(c)
    \/ Join

SpecPool == PoolInit /\ [][PoolNext]_vars

----------------------------------------------------------------------------
(* The functions on their own: the classifier on a text, the extractor on a  *)
(* pair of fragments.                                                       *)

MaxWords == 2

Vocabulary == {"Dubai", "UAE", "Emirates", "Ajman", "Abu", "Dhabi", "Riyadh", "KSA",
               "Doha", "Qatar", "London", "UK", "Glasgow", "Ukraine", "Remote"}

RECURSIVE TextsOf(_)
\* the texts of exactly n words
TextsOf(n) ==
    IF n = 0 THEN {""}
    ELSE IF n = 1 THEN Vocabulary
    ELSE {t \o " " \o w : t \in TextsOf(n - 1), w \in Vocabulary}

Texts == UNION {TextsOf(n) : n \in 0..MaxWords}

\* two rosters' entries whose names differ by a colon
FnCompanies == {
    [name |-> "Acme", url |-> "https://www.acme.com/careers",
     base_url |-> "https://www.acme.com", job_selectors |-> CareerSelectors],
    [name |-> "Acme:Gulf", url |-> "https://www.acme.com/careers",
     base_url |-> "https://www.acme.com", job_selectors |-> CareerSelectors] }

FnElements == {
    Elem("h3", "Head of Tax", "", <<>>),
    Elem("h3", "Gulf:Head of Tax", "", <<>>),
    Elem("a", "Head of Tax", "/jobs/1", <<>>),
    Elem("a", "Tax Manager", "jobs/1", <<>>),
    Card("Tax Manager", "https://www.acme.com/jobs/2") }

Postings == {[company_config |-> c, element |-> e] : c \in FnCompanies, e \in FnElements}

FnClassifyInput(text) ==
    [pc |-> "classify", text |-> text, country |-> "", location |-> "",
     posts |-> <<>>, jobs |-> <<>>]

FnExtractInput(left, right) ==
    [pc |-> "extract", text |-> "", country |-> "", location |-> "",
     posts |-> <<left, right>>, jobs |-> <<>>]

\* one company's task on one page that arrived with status 200
FnScrapeInput(c, body) ==
    [pc |-> "scrape", company |-> c, body |-> body, elements |-> <<>>,
     outcome |-> [failed |-> FALSE, jobs_found |-> <<>>]]

FnInit ==
    /\ store = NoFile
    /\ persisted = {}
    /\ sent = {}
    /\ NoProcess
    /\ \/ \E text \in Texts : fn = FnClassifyInput(text)
       \/ \E left \in Postings, right \in Postings : fn = FnExtractInput(left, right)
       \/ \E c \in Names, body \in DOMAIN Pages : fn = FnScrapeInput(c, body)

\* lines 391-392 on the text of a fragment
FnClassify ==
    /\ fn.pc = "classify"
    /\ fn' = [fn EXCEPT !.pc = "classified",
                        !.country = extract_country(fn.text),
                        !.location = extract_location(fn.text)]
    /\ UNCHANGED runVars

\* extract_job_info on each of the two fragments
FnExtract ==
    /\ fn.pc = "extract"
    /\ fn' = [fn EXCEPT !.pc = "extracted",
                        !.jobs = [i \in 1..2 |->
                            extract_job_info(fn.posts[i].element,
                                             fn.posts[i].company_config).job]]
    /\ UNCHANGED runVars

\* lines 241-329 on the page: the elements chosen and what the task returns
FnScrape ==
    /\ fn.pc = "scrape"
    /\ fn' = [fn EXCEPT !.pc = "scraped",
                        !.elements = ElementsFound(Pages[fn.body], Config(fn.company)),
                        !.outcome = ScrapeOutcome(Config(fn.company),
                                                  Response("ok", 200, fn.body))]
    /\ UNCHANGED runVars

FnNext == FnClassify \/ FnExtract \/ FnScrape

SpecFn == FnInit /\ [][FnNext]_vars

----------------------------------------------------------------------------
(* The claims *)

Ids(jobs) == {jobs[i].id : i \in 1..Len(jobs)}

JobsOf(c, jobs) == SelectSeq(jobs, LAMBDA job : job.company = c)

\* C1: at-most-once notification across runs: an identity that a completed
\* save of an earlier run has persisted is never in the new_jobs a later run
\* computes, whatever that run scrapes.
C1_AtMostOnce ==
    [][(pc = "diff" /\ pc' = "commit") => Ids(new_jobs') \cap persisted = {}]_vars

\* a later run has scraped a job whose identity is persisted, and has diffed
C1_Witness ==
    /\ pc = "commit"
    /\ Ids(all_jobs) \cap persisted # {}
    /\ Ids(new_jobs) \cap persisted = {}

\* C2: load never fails the run: whenever the store is missing or does not
\* parse, load returns the empty set and the run goes on to scrape.
C2_LoadNeverFails ==
    [][(pc = "load" /\ ~Parses(store)) => (pc' = "scrape" /\ seen_jobs' = {})]_vars

\* what a load would read from a file that is missing or complete
StoredIds(file) == IF file.exists THEN file.ids ELSE {}

Readable(file) == ~file.exists \/ Parses(file)

\* C3: save is atomic with respect to a crash: every step leaves on disk
\* either the complete set that was there before it or the complete new set.
C3_SaveAtomic ==
    [][Readable(store) =>
        /\ Readable(store')
        /\ StoredIds(store') \in {StoredIds(store), seen_jobs}]_vars

TransportError(response) == response.kind \in {"timeout", "connection_error"}

\* C4 as amended: a target whose fetch raises, whose response is a 4xx or
\* 5xx or whose page does not parse contributes no job to the aggregate, and
\* the jobs of every target that was scraped are all in the aggregate, in
\* order, whatever happened to the other targets.
C4_FailureIsolation ==
    \A c \in Names :
        task[c].pc = "done" =>
            IF \/ TransportError(task[c].response)
               \/ task[c].response.status \in 400..599
               \/ task[c].response.body = "malformed"
            THEN task[c].failed /\ JobsOf(c, all_jobs) = <<>>
            ELSE ~task[c].failed /\ JobsOf(c, all_jobs) = task[c].jobs_found

\* one target failed, the other's jobs are in the aggregate and the run went on
C4_Witness ==
    /\ pc = "diff"
    /\ \E c, d \in Names :
        /\ task[c].failed
        /\ task[c].response.status = 404
        /\ ~task[d].failed
        /\ task[d].jobs_found # <<>>
        /\ all_jobs = task[d].jobs_found

\* C4 as stated: a fetch error, a status that is not a 2xx or a parse error
\* is a failure that contributes no job.
C4_NonSuccessContributesNothing ==
    \A c \in Names :
        (/\ task[c].pc = "done"
         /\ \/ TransportError(task[c].response)
            \/ task[c].response.status \notin 200..299
            \/ task[c].response.body = "malformed")
        => JobsOf(c, all_jobs) = <<>>

\* C5: the aggregate, and so new_jobs, holds no two jobs of one identity.
C5_AggregateDeduplicated ==
    /\ \A i, j \in 1..Len(all_jobs) : i # j => all_jobs[i].id # all_jobs[j].id
    /\ \A i, j \in 1..Len(new_jobs) : i # j => new_jobs[i].id # new_jobs[j].id

TargetCountrySet == {target_countries[i] : i \in 1..Len(target_countries)}

\* the records extract_job_info builds from the elements of each page a
\* company may serve
ExtractedTable ==
    [c \in Names |-> [response \in Responses(c) |->
        LET elements == ElementsFound(Pages[response.body], Config(c))
            results == {extract_job_info(elements[i], Config(c)) : i \in 1..Len(elements)}
        IN  {r.job : r \in {x \in results : x.kind = "job"}}]]

\* the records extract_job_info built from the elements a scraped task used
Extracted(c) == ExtractedTable[c][task[c].response]

Scraped(c) == task[c].pc \in {"acquire", "locked", "unlock", "done"} /\ ~task[c].failed

\* C6: a job is kept iff its country is in the target-country set, Unknown is
\* never kept, and no job of the aggregate or of new_jobs has country Unknown.
C6_CountryFilter ==
    /\ "Unknown" \notin TargetCountrySet
    /\ \A c \in Names : Scraped(c) =>
        \A job \in Extracted(c) :
            (job \in {task[c].jobs_found[i] : i \in 1..Len(task[c].jobs_found)})
                <=> job.country \in TargetCountrySet
    /\ \A i \in 1..Len(all_jobs) :
        all_jobs[i].country \in TargetCountrySet /\ all_jobs[i].country # "Unknown"
    /\ \A i \in 1..Len(new_jobs) :
        new_jobs[i].country \in TargetCountrySet /\ new_jobs[i].country # "Unknown"

\* a page with a job of unknown country was scraped: the job was dropped and
\* the others are in the aggregate
C6_Witness ==
    \E c \in Names :
        /\ task[c].pc = "done"
        /\ ~task[c].failed
        /\ \E job \in Extracted(c) : job.country = "Unknown"
        /\ all_jobs # <<>>

\* title keywords a title mode could be configured with
TitleKeywords == {"finance", "director", "head of"}

HasTitleKeyword(title) == \E k \in TitleKeywords : StrContains(StrLower(title), k)

\* C7 as stated: under a configured title-keyword list, a job whose title
\* holds none of the keywords is never relevant, so none is in the aggregate.
C7_TitleMode ==
    \A i \in 1..Len(all_jobs) : HasTitleKeyword(all_jobs[i].title)

\* C7 as amended: the filter has the country mode only: every extracted job
\* whose country is in the target-country set is kept whatever its title,
\* also when the title holds no title keyword.
C7_CountryOnly ==
    \A c \in Names : Scraped(c) =>
        \A job \in Extracted(c) :
            (job.country \in TargetCountrySet /\ ~HasTitleKeyword(job.title))
                => job.id \in Ids(task[c].jobs_found)

\* a job in a target country whose title holds no title keyword is in the aggregate
C7_Witness ==
    \E i \in 1..Len(all_jobs) :
        /\ ~HasTitleKeyword(all_jobs[i].title)
        /\ all_jobs[i].country = "United Kingdom"

\* a keyword occurs in the text, case-insensitively
OccursCI(text, keyword) ==
    \E i \in 1..Len(text) :
        /\ i + Len(keyword) - 1 <= Len(text)
        /\ \A j \in 1..Len(keyword) : LowerChar(Char(text, i + j - 1)) = Char(keyword, j)

CountryOrder == <<"UAE", "Saudi Arabia", "Qatar", "United Kingdom">>

KeywordsOf == <<UaeWords, SaudiWords, QatarWords, UkWords>>

Matched(text) ==
    {k \in 1..Len(CountryOrder) :
        \E w \in 1..Len(KeywordsOf[k]) : OccursCI(text, KeywordsOf[k][w])}

\* C8: the country of a text is the first of UAE, Saudi Arabia, Qatar, United
\* Kingdom one of whose keywords occurs in it case-insensitively, and Unknown
\* if none does; every text, the empty one too, has a country.
C8_FirstMatchWins ==
    fn.pc = "classified" =>
        /\ fn.country \in {"UAE", "Saudi Arabia", "Qatar", "United Kingdom", "Unknown"}
        /\ IF Matched(fn.text) = {}
           THEN fn.country = "Unknown"
           ELSE fn.country =
                CountryOrder[CHOOSE k \in Matched(fn.text) : \A m \in Matched(fn.text) : k <= m]

\* a text with a keyword of the United Kingdom before one of the UAE, in
\* capitals, is classified UAE
C8_Witness ==
    /\ fn.pc = "classified"
    /\ fn.text = "London Dubai"
    /\ Matched(fn.text) = {1, 4}
    /\ fn.country = "UAE"

\* the labels of a country: its cities' and its bare name
LabelsOf(country) ==
    CASE country = "UAE" ->
            {"Dubai, UAE", "Abu Dhabi, UAE", "Sharjah, UAE", "Ajman, UAE", "UAE"}
      [] country = "Saudi Arabia" ->
            {"Riyadh, Saudi Arabia", "Jeddah, Saudi Arabia", "Dammam, Saudi Arabia",
             "Khobar, Saudi Arabia", "Saudi Arabia"}
      [] country = "Qatar" -> {"Doha, Qatar", "Qatar"}
      [] country = "United Kingdom" ->
            {"London, UK", "Manchester, UK", "Birmingham, UK", "Edinburgh, UK",
             "Glasgow, UK", "United Kingdom", "UK"}
      [] OTHER -> {LocationTBD}

\* C9: the location label belongs to the classified country: one of its city
\* labels or its bare name, and the sentinel exactly when the country is Unknown.
C9_LabelWithinCountry ==
    fn.pc = "classified" =>
        /\ fn.location \in LabelsOf(fn.country)
        /\ (fn.location = LocationTBD) <=> (fn.country = "Unknown")

UrlOrTitle(job) == IF job.url # "" THEN job.url ELSE job.title

\* C10: two jobs have the same identity exactly when they have the same
\* source name and the same url-or-title.
C10_IdentityInjective ==
    fn.pc = "extracted" =>
        LET left == fn.jobs[1]
            right == fn.jobs[2]
        IN  (left.id = right.id)
                <=> (left.company = right.company /\ UrlOrTitle(left) = UrlOrTitle(right))

\* C11: a failed notification does not roll the seen set back: when the
\* notification is attempted the complete document on disk already holds the
\* identity of every new job, sending leaves the file as it is, and an
\* identity that was persisted but never delivered is in no later new_jobs.
C11_NoRollback ==
    [][/\ (pc = "send") =>
            /\ Parses(store)
            /\ Ids(new_jobs) \subseteq store.ids
            /\ Ids(new_jobs) \subseteq persisted
            /\ store' = store
       /\ (pc = "diff" /\ pc' = "commit") =>
            Ids(new_jobs') \cap (persisted \ sent) = {}]_vars

\* a later run has scraped a job that was persisted and never delivered,
\* and has left it out of new_jobs
C11_Witness ==
    /\ pc = "commit"
    /\ \E id \in Ids(all_jobs) :
        /\ id \in persisted
        /\ id \notin sent
        /\ id \notin Ids(new_jobs)

\* C12: the persisted seen set only grows: the set a run's save writes is
\* the set the run loaded together with exactly the identities of its
\* new_jobs, and the completed document holds every identity any earlier
\* completed save has written.
C12_GrowsOnly ==
    [][/\ (pc = "save" /\ pc' = "write") =>
            /\ StoredIds(store) \subseteq seen_jobs
            /\ seen_jobs = StoredIds(store) \cup Ids(new_jobs)
       /\ (pc = "write" /\ pc' = "send") =>
            /\ Parses(store')
            /\ StoredIds(store') = seen_jobs
            /\ persisted \subseteq StoredIds(store')]_vars

\* a run that loaded identities and found new ones has completed its save
C12_Witness ==
    /\ pc = "send"
    /\ new_jobs # <<>>
    /\ seen_jobs \ Ids(new_jobs) # {}
    /\ Parses(store)
    /\ store.ids = seen_jobs

\* the first n elements of s
Prefix(s, n) == [i \in 1..(IF Len(s) < n THEN Len(s) ELSE n) |-> s[i]]

Matches(page, selectors) ==
    {i \in 1..Len(selectors) : Select(page, selectors[i]) # <<>>}

\* elements are the capped matches of the first selector that matches, or
\* nothing when no selector matches
FirstMatchWins(page, selectors, cap, elements) ==
    IF Matches(page, selectors) = {} THEN elements = <<>>
    ELSE \E i \in Matches(page, selectors) :
            /\ \A j \in 1..(i - 1) : j \notin Matches(page, selectors)
            /\ elements = Prefix(Select(page, selectors[i]), cap)

\* the selector rule with the given cap on the generic selectors
SelectorRule(genericCap) ==
    (fn.pc = "scraped" /\ ~ParseRaises(fn.body)) =>
        LET page == Pages[fn.body]
            company_config == Config(fn.company)
        IN  /\ IF Matches(page, company_config.job_selectors) # {}
               THEN FirstMatchWins(page, company_config.job_selectors,
                                   PrimaryCap, fn.elements)
               ELSE FirstMatchWins(page, generic_selectors, genericCap, fn.elements)
            /\ ~fn.outcome.failed
            /\ \A k \in 1..Len(fn.outcome.jobs_found) :
                \E e \in 1..Len(fn.elements) :
                    LET r == extract_job_info(fn.elements[e], company_config)
                    IN  r.kind = "job" /\ r.job = fn.outcome.jobs_found[k]
            /\ (\A e \in 1..Len(fn.elements) :
                    extract_job_info(fn.elements[e], company_config).kind # "job")
                => fn.outcome.jobs_found = <<>>

\* C13 as stated: the fragments are the matches, capped at 50, of the first
\* primary selector that matches; only if no primary selector matches are
\* the generic selectors tried, under the same rule and the same cap;
\* nothing matching yields zero jobs without error, and a winning selector
\* whose elements are all rejected yields zero jobs with no later selector
\* tried.
C13_SameCap == SelectorRule(PrimaryCap)

\* C13 amended: as above, but the matches of the winning generic selector
\* are capped at 30, not at the 50 of the primary selectors.
C13_SelectorFallback == SelectorRule(GenericCap)

\* the generic fallback was taken, its cap cut the matches, and a job came
\* out of the fragments kept
C13_Witness ==
    /\ fn.pc = "scraped"
    /\ Matches(Pages[fn.body], Config(fn.company).job_selectors) = {}
    /\ \E i \in Matches(Pages[fn.body], generic_selectors) :
        Len(Select(Pages[fn.body], generic_selectors[i])) > Len(fn.elements)
    /\ Len(fn.elements) = GenericCap
    /\ fn.outcome.jobs_found # <<>>

\* what each fragment of each page a company may serve comes to: the kind of
\* extract_job_info's result, whether the job is in a target country, the job
FragmentTable ==
    [c \in AllNames |-> [response \in Responses(c) |->
        LET elements == ElementsFound(Pages[response.body], Config(c))
        IN  [i \in 1..Len(elements) |->
                LET r == extract_job_info(elements[i], Config(c))
                IN  [kind |-> r.kind,
                     kept |-> r.kind = "job" /\ r.job.country \in TargetCountrySet,
                     job |-> r.job]]]]

Fragments(c) == FragmentTable[c][task[c].response]

\* the jobs of the fragments that were neither faulty nor rejected, in order
KeptJobs(fragments) ==
    LET kept == SelectSeq(fragments, LAMBDA f : f.kept)
    IN  [k \in 1..Len(kept) |-> kept[k].job]

Parsed(c) ==
    /\ task[c].pc \in {"acquire", "locked", "unlock", "done"}
    /\ task[c].response.kind = "ok"
    /\ task[c].response.status < 400
    /\ ~ParseRaises(task[c].response.body)

\* C14: per-fragment fault isolation: a fragment whose extraction raises or
\* is rejected contributes no job and nothing else: the task of a page that
\* parsed does not fail, its jobs are those of every other fragment in
\* order, and they reach the aggregate.
C14_FragmentIsolation ==
    \A c \in Names : Parsed(c) =>
        /\ ~task[c].failed
        /\ task[c].jobs_found = KeptJobs(Fragments(c))
        /\ task[c].pc \in {"unlock", "done"} => JobsOf(c, all_jobs) = task[c].jobs_found

\* a page with a raising fragment and a rejected one between two jobs was
\* scraped, and both jobs are in the aggregate
C14_Witness ==
    \E c \in Names :
        /\ Parsed(c)
        /\ task[c].pc = "done"
        /\ \E i, j, k, l \in 1..Len(Fragments(c)) :
            /\ i < j /\ i < k /\ j < l /\ k < l
            /\ Fragments(c)[i].kept
            /\ Fragments(c)[j].kind = "raise"
            /\ Fragments(c)[k].kind = "none"
            /\ Fragments(c)[l].kept
        /\ Len(JobsOf(c, all_jobs)) = 2

\* the tasks inside the with block of lines 331-332
InLock == {c \in DOMAIN task : task[c].pc \in {"locked", "unlock"}}

\* the jobs a task has to have put in the aggregate
Delivered(c) ==
    IF task[c].pc \in {"unlock", "done"} /\ ~task[c].failed
    THEN KeptJobs(Fragments(c))
    ELSE <<>>

\* C15: no lost updates under the worker pool: at most 5 tasks run at a
\* time, at most one task is inside the locked append, and in every
\* interleaving the aggregate holds, for each task that has appended, exactly
\* the relevant jobs of its page in the order they were discovered, as one
\* contiguous block, and nothing else; so the final aggregate is the
\* multiset union of the jobs of the successfully scraped companies.
C15_NoLostUpdates ==
    /\ Cardinality(Running) <= max_workers
    /\ Cardinality(InLock) <= 1
    /\ \A c \in DOMAIN task : c \in InLock <=> lock = c
    /\ \A c \in DOMAIN task : JobsOf(c, all_jobs) = Delivered(c)
    /\ \A i \in 1..Len(all_jobs) : all_jobs[i].company \in DOMAIN task
    /\ \A i, k \in 1..Len(all_jobs) :
        (i < k /\ all_jobs[i].company = all_jobs[k].company) =>
            \A j \in i..k : all_jobs[j].company = all_jobs[i].company

\* the pool is full with a sixth task queued, and one task has appended its
\* block and still holds the lock while another waits for it
C15_Witness ==
    /\ Cardinality(Running) = max_workers
    /\ \E c \in DOMAIN task : task[c].pc = "queued"
    /\ \E c \in DOMAIN task :
        /\ task[c].pc = "unlock"
        /\ Len(JobsOf(c, all_jobs)) = 2
    /\ \E c \in DOMAIN task : task[c].pc = "acquire" /\ task[c].jobs_found # <<>>

====
